---- MODULE Spec2Model ----
(***************************************************************************)
(* Woehammer stats bot: the dataset cache, the command handlers and the    *)
(* refresh paths of the six revisions kept in the repository.              *)
(*                                                                         *)
(*   "A"   src/index.js lines 1-412      single cache, 24h TTL             *)
(*   "B"   src/index.js lines 414-1451   two caches, soft-fail wrappers    *)
(*   "P0"  src/unnamed/part_000          two caches, refreshAll            *)
(*   "P1"  src/unnamed/part_001          two caches, soft-fail wrappers    *)
(*   "P2"  src/unnamed/part_002          two caches, refreshAll, warm-up   *)
(*   "P3"  src/unnamed/part_003          two caches, 6h TTL                *)
(*                                                                         *)
(* Node runs one handler at a time and switches only at an await, so every *)
(* action below is one run-to-completion section between two awaits.       *)
(* Time is counted in cache lifetimes (24h in A, 6h in P3).                *)
(***************************************************************************)
EXTENDS Integers, Sequences, FiniteSets, TLC

VARIABLES variant, url, scope, now, cache, tasks, inflight, lastOK, last, ninv,
          parser, calc

vars == <<variant, url, scope, now, cache, tasks, inflight, lastOK, last, ninv,
          parser, calc>>

(* ------------------------------ bounds -------------------------------- *)
MaxTasks == 2
MaxInv == 3
MaxFetch == 3
MaxTime == 1

(* ---------------------------- vocabulary ------------------------------ *)
Variants == {"A", "B", "P0", "P1", "P2", "P3"}
DS == {"w", "f"}
Warm == 0
Handlers == 1..MaxTasks
TaskIds == {Warm} \cup Handlers

\* the datasets a revision has: revision A has the one sheet only
Datasets(v) == IF v = "A" THEN {"w"} ELSE DS

HasTTL(v) == v \in {"A", "P3"}
\* one cache lifetime, the unit of the clock
CACHE_TTL_MS(v) == 1

(* ------------------------------- cache -------------------------------- *)
\* content ids: NoData is the null of revision A's CACHE.headers/rows,
\* EmptyC is a load that parsed to zero rows.
NoData == "null"
EmptyC == "empty"

(* ------------------------------ strings ------------------------------ *)
\* a string is the sequence of its characters; Null is a missing option
Null == <<"null">>
\* the value of a missing property
Undefined == <<"undefined">>
NBSP == "nbsp"
Str(s) == IF s = Null THEN <<>> ELSE s

\* the lower case of a character (the capitals used in the sheets)
Lower(c) ==
  LET UpperCase == <<"A", "C", "G", "K", "O", "R", "S", "T", "X">>
      LowerCase == <<"a", "c", "g", "k", "o", "r", "s", "t", "x">>
  IN IF \E i \in 1..Len(UpperCase) : UpperCase[i] = c
     THEN LowerCase[CHOOSE i \in 1..Len(UpperCase) : UpperCase[i] = c]
     ELSE c

IsWs(c) == c \in {" ", "\t", "\n", "\r", NBSP}

RECURSIVE DropWs(_)
DropWs(s) == IF s # <<>> /\ IsWs(Head(s)) THEN DropWs(Tail(s)) ELSE s

RECURSIVE TrimEnd(_)
TrimEnd(s) ==
  IF s # <<>> /\ IsWs(s[Len(s)]) THEN TrimEnd(SubSeq(s, 1, Len(s) - 1)) ELSE s

\* String.prototype.trim
Trim(s) == TrimEnd(DropWs(s))

\* .replace(/\s+/g, " ")
RECURSIVE Collapse(_)
Collapse(s) ==
  IF s = <<>> THEN <<>>
  ELSE IF IsWs(Head(s)) THEN <<" ">> \o Collapse(DropWs(Tail(s)))
  ELSE <<Head(s)>> \o Collapse(Tail(s))

ToLowerCase(s) == [i \in 1..Len(s) |-> Lower(s[i])]

norm(s) == ToLowerCase(TrimEnd(DropWs(Collapse(Str(s)))))

\* String.prototype.includes
Includes(h, n) ==
  \E i \in 0..(Len(h) - Len(n)) : SubSeq(h, i + 1, i + Len(n)) = n

(* ------------------------------ numbers ------------------------------- *)
\* a JavaScript number: fin is Number.isFinite
NaN == [fin |-> FALSE, v |-> 0]
Num(n) == [fin |-> TRUE, v |-> n]

Digits == <<"0", "1", "2", "3", "4", "5", "6", "7", "8", "9">>
IsDigit(c) == \E i \in 1..10 : Digits[i] = c

RECURSIVE Value(_)
Value(s) ==
  IF s = <<>> THEN 0
  ELSE Value(SubSeq(s, 1, Len(s) - 1)) * 10
       + (CHOOSE i \in 1..10 : Digits[i] = s[Len(s)]) - 1

\* Number(str) for the strings used here (no fractions, no exponents):
\* white space around the numeral is skipped, "" is 0
StringToNumber(t) ==
  IF t = <<>> THEN Num(0)
  ELSE IF Head(t) = "-"
  THEN IF Len(t) > 1 /\ \A i \in 2..Len(t) : IsDigit(t[i])
       THEN Num(0 - Value(Tail(t))) ELSE NaN
  ELSE IF \A i \in 1..Len(t) : IsDigit(t[i]) THEN Num(Value(t)) ELSE NaN
Number(s) == StringToNumber(Trim(s))

\* revision B: Number(String(v ?? "").replace(/[% ,]/g, ""))
toNum(v) == Number(SelectSeq(Str(v), LAMBDA c : c \notin {"%", " ", ","}))

\* revisions P0, P1 and P2: trim, "" is NaN, every % and comma removed
toNumP(x) ==
  LET t == Trim(Str(x))
  IN IF t = <<>> THEN NaN
     ELSE Number(SelectSeq(t, LAMBDA c : c \notin {"%", ","}))

\* s.replace("%", ""): the first "%" only
DropFirst(s, ch) ==
  IF \A i \in 1..Len(s) : s[i] # ch THEN s
  ELSE LET k == CHOOSE i \in 1..Len(s) :
                  s[i] = ch /\ \A j \in 1..(i - 1) : s[j] # ch
       IN SubSeq(s, 1, k - 1) \o SubSeq(s, k + 1, Len(s))

\* revision A: null, the unavailable value of revisions A and P3, is
\* written NaN here
asNumber(v) ==
  LET t == DropFirst(Trim(IF v \in {Null, Undefined} THEN <<>> ELSE v), "%")
  IN IF v \in {Null, Undefined} \/ t = <<>> THEN NaN ELSE Number(t)

\* revision P3: emptiness is tested before the "%" is removed
parsePercent(val) ==
  LET s == Trim(IF val \in {Null, Undefined} THEN <<>> ELSE val)
  IN IF val \in {Null, Undefined} \/ s = <<>> THEN NaN
     ELSE Number(DropFirst(s, "%"))

MIN_GAMES == 5
AtLeast(n, k) == n.fin /\ n.v >= k

(* ------------------------------- rows --------------------------------- *)
\* a parsed row: header name -> raw cell
getCol(row, candidates) ==
  IF \E i \in 1..Len(candidates) : candidates[i] \in DOMAIN row
  THEN row[candidates[CHOOSE i \in 1..Len(candidates) :
                        /\ candidates[i] \in DOMAIN row
                        /\ \A j \in 1..(i - 1) : candidates[j] \notin DOMAIN row]]
  ELSE <<>>

warscrollName(row) ==
  getCol(row, <<"Warscroll", "warscroll", "Name", "Unit", "Unit Name">>)
warscrollFaction(row) == getCol(row, <<"Faction", "faction">>)
GamesAliases ==
  <<"Games", "games", "Faction Games Featured", "Games Featured",
    "Games Featured (Faction)", "Faction Games">>
UsedPctAliases ==
  <<"Used %", "Used%", "Used", "Use %", "Used Percent", "Usage %", "Pick %",
    "Picked %">>
WinPctAliases ==
  <<"Win %", "Win%", "Win Rate", "Win rate", "Winrate", "Wins %",
    "Win Percentage">>
WinWithoutAliases ==
  <<"Win % Without", "Win% Without", "Win Without", "Win w/o", "Win Without %">>
ImpactAliases == <<"Impact", "Impact (pp)", "Impact pp", "Impact in pp">>

warscrollGames(row) == toNum(getCol(row, GamesAliases))
warscrollUsedPct(row) == toNum(getCol(row, UsedPctAliases))
warscrollWinPct(row) == toNum(getCol(row, WinPctAliases))
warscrollWinWithoutPct(row) == toNum(getCol(row, WinWithoutAliases))
warscrollImpactPP(row) ==
  LET direct == toNum(getCol(row, ImpactAliases))
      w == warscrollWinPct(row)
      wo == warscrollWinWithoutPct(row)
  IN IF direct.fin THEN direct
     ELSE IF w.fin /\ wo.fin THEN Num(w.v - wo.v) ELSE NaN

factionName(row) == getCol(row, <<"Faction", "faction">>)
formationName(row) ==
  getCol(row, <<"Battle Formation", "Battle formation", "Formation", "formation">>)
factionGames(row) == toNum(getCol(row, <<"Games", "games">>))
factionWinPct(row) == toNum(getCol(row, <<"Win %", "Win%", "Win Rate", "Win rate">>))
factionAvgElo(row) == toNum(getCol(row, <<"Average Elo", "Avg Elo", "AvgElo">>))
factionMedianElo(row) == toNum(getCol(row, <<"Median Elo", "Med Elo", "MedianElo">>))
factionEloGap(row) ==
  LET direct == toNum(getCol(row, <<"Elo Gap", "Elo gap", "Gap">>))
      a == factionAvgElo(row)
      m == factionMedianElo(row)
  IN IF direct.fin THEN direct
     ELSE IF a.fin /\ m.fin THEN Num(a.v - m.v) ELSE NaN

\* the sheets the source can return
WRow(name, fac, games, used, win) ==
  ("Warscroll" :> name) @@ ("Faction" :> fac) @@ ("Games" :> games)
  @@ ("Used %" :> used) @@ ("Win %" :> win)

FRow(fac, form, games, win, elo) ==
  ("Faction" :> fac) @@ ("Battle Formation" :> form) @@ ("Games" :> games)
  @@ ("Win %" :> win) @@ ("Average Elo" :> elo)

Skaven == <<"S", "k">>
Ogor == <<"O", "g">>
Overall == <<"O", "v", "e", "r", "a", "l", "l">>

W1 ==
  <<WRow(<<"R", "a">>, Skaven, <<"9">>, <<"4", "0", "%">>, <<"5", "5", "%">>),
    WRow(<<"G", "a">>, Skaven, <<"1", "2">>, <<"4", "0", "%">>, <<"5", "8", "%">>),
    WRow(<<"R", "o">>, Skaven, <<"4">>, <<"6", "0", "%">>, <<"5", "0", "%">>)>>
W2 ==
  <<WRow(<<"R", "a">>, Skaven, <<"1", "2">>, <<"1", "0", "%">>, <<"x">>),
    WRow(<<"G", "o">>, Ogor, <<"7">>, <<"3", "0", "%">>, <<"4", "8", "%">>),
    WRow(<<"R", "o">>, Skaven, <<"6">>, <<>>, <<"5", "1", "%">>)>>
F1 ==
  <<FRow(Skaven, <<"C", "a">>, <<"4">>, <<"4", "5", "%">>, <<"x">>),
    FRow(Skaven, Overall, <<"2", "0">>, <<"5", "2", "%">>, <<"x">>)>>
F2 ==
  <<FRow(Skaven, Overall, <<"2", "0">>, <<"5", "2", "%">>, <<"4", "1", "0">>),
    FRow(Ogor, <<>>, <<"8">>, <<"4", "7", "%">>, <<"x">>)>>

\* the rows a content parses to
Table(d, c) ==
  CASE c = "W1" -> W1 [] c = "W2" -> W2 [] c = "F1" -> F1 [] c = "F2" -> F2
    [] OTHER -> <<>>

Contents(d) ==
  IF d = "w" THEN {EmptyC, "W1", "W2"} ELSE {EmptyC, "F1", "F2"}

\* number of rows of a content
RowCount(d, c) == Len(Table(d, c))

(* ------------------------ queries of revision B ----------------------- *)
Slice(s, n) == SubSeq(s, 1, IF Len(s) < n THEN Len(s) ELSE n)
Reverse(s) == [i \in 1..Len(s) |-> s[Len(s) + 1 - i]]

\* Array.prototype.sort((a, b) => b.k - a.k): stable, descending
RECURSIVE InsertDesc(_, _)
InsertDesc(x, s) ==
  IF s = <<>> THEN <<x>>
  ELSE IF Head(s).k >= x.k THEN <<Head(s)>> \o InsertDesc(x, Tail(s))
  ELSE <<x>> \o s

RECURSIVE SortDesc(_)
SortDesc(s) ==
  IF s = <<>> THEN <<>>
  ELSE InsertDesc(s[Len(s)], SortDesc(SubSeq(s, 1, Len(s) - 1)))


Keys(pairs) == [i \in 1..Len(pairs) |-> pairs[i].r]

\* x || d for d = 0, and x ?? d of revision A, whose null is written NaN
OrElse(n, d) == IF n.fin THEN n.v ELSE d

\* rows sorted by (warscrollUsedPct(b) || 0) - (warscrollUsedPct(a) || 0)
ByUsed(rows) ==
  Keys(SortDesc([i \in 1..Len(rows) |->
                   [r |-> rows[i], k |-> OrElse(warscrollUsedPct(rows[i]), 0)]]))

MinGamesW(ws) == SelectSeq(ws, LAMBDA r : AtLeast(warscrollGames(r), MIN_GAMES))

\* the outcome of a handler: the reply, the exception thrown while
\* building it, and the records the reply is built from
NoUsed == [d \in DS |-> <<>>]
Res(kind, w, f) ==
  [kind |-> kind, err |-> "none", used |-> [d \in DS |-> IF d = "w" THEN w ELSE f]]
Thrown(e) == [kind |-> "error", err |-> e, used |-> NoUsed]

\* the first candidate, whatever its formation
findFactionOverallRowByInput_First(fs, factionInput) ==
  LET pool == SelectSeq(fs, LAMBDA r : AtLeast(factionGames(r), MIN_GAMES))
      candidates == SelectSeq(pool, LAMBDA r : Includes(norm(factionName(r)),
                                                        norm(factionInput)))
  IN IF candidates = <<>> THEN <<>> ELSE <<candidates[1]>>

findFactionOverallRowByInput(fs, factionInput) ==
  LET fq == norm(factionInput)
      pool == SelectSeq(fs, LAMBDA r : AtLeast(factionGames(r), MIN_GAMES))
      candidates == SelectSeq(pool, LAMBDA r : Includes(norm(factionName(r)), fq))
      overall == SelectSeq(candidates, LAMBDA r : norm(formationName(r)) = norm(Overall))
  IN IF candidates = <<>> THEN <<>>
     ELSE IF overall # <<>> THEN <<overall[1]>> ELSE <<candidates[1]>>

warscrollLiftVsFaction(row, factionOverallWin) ==
  LET w == warscrollWinPct(row)
  IN IF ~w.fin \/ ~factionOverallWin.fin THEN NaN
     ELSE Num(w.v - factionOverallWin.v)

topWarscrollsForFaction(ws, factionQuery, limit) ==
  Slice(ByUsed(SelectSeq(MinGamesW(ws),
                         LAMBDA r : Includes(norm(warscrollFaction(r)),
                                             norm(factionQuery)))),
        limit)

\* buildFactionBlurb reaches fmt1(avg), which revision B does not define
BlurbThrows(row) ==
  factionAvgElo(row).fin /\ factionMedianElo(row).fin /\ factionEloGap(row).fin

QWarscroll(ws, name) ==
  LET q == norm(name)
      matches == Slice(SelectSeq(MinGamesW(ws),
                                 LAMBDA r : Includes(norm(warscrollName(r)), q)), 10)
  IN IF matches = <<>> THEN Res("noResults", <<>>, <<>>)
     ELSE Res("data", matches, <<>>)

QCommon(ws, fac, least) ==
  LET fq == norm(fac)
      sorted == ByUsed(SelectSeq(MinGamesW(ws),
                                 LAMBDA r : Includes(norm(warscrollFaction(r)), fq)))
      rows == Slice(IF least THEN Reverse(sorted) ELSE sorted, 10)
  IN Res("data", rows, <<>>)

QImpact(ws, fs, fac, least) ==
  LET base == findFactionOverallRowByInput(fs, fac)
      baseWin == factionWinPct(base[1])
      mine == SelectSeq(MinGamesW(ws),
                        LAMBDA r : Includes(norm(warscrollFaction(r)),
                                            norm(factionName(base[1]))))
      lifted == SelectSeq([i \in 1..Len(mine) |->
                             [r |-> mine[i],
                              lift |-> warscrollLiftVsFaction(mine[i], baseWin)]],
                          LAMBDA x : x.lift.fin)
      sorted == Keys(SortDesc([i \in 1..Len(lifted) |->
                                 [r |-> lifted[i].r, k |-> lifted[i].lift.v]]))
      rows == Slice(IF least THEN Reverse(sorted) ELSE sorted, 10)
  IN IF base = <<>> THEN Res("notFound", <<>>, <<>>)
     ELSE Res("data", rows, base)

QFaction(ws, fs, facInput, formInput) ==
  LET rows == SelectSeq(fs, LAMBDA r : Includes(norm(factionName(r)), norm(facInput)))
      byForm == SelectSeq(rows, LAMBDA r : Includes(norm(formationName(r)),
                                                    norm(formInput)))
      overall == SelectSeq(rows, LAMBDA r : norm(formationName(r)) = norm(Overall))
      given == formInput # Null /\ formInput # <<>>
      row == IF given THEN byForm
             ELSE IF overall # <<>> THEN <<overall[1]>> ELSE <<rows[1]>>
  IN IF rows = <<>> THEN Res("notFound", <<>>, <<>>)
     ELSE IF row = <<>> THEN Thrown("type")
     ELSE IF BlurbThrows(row[1]) THEN Thrown("reference")
     ELSE Res("data", topWarscrollsForFaction(ws, factionName(row[1]), 3),
              <<row[1]>>)

Query(cmd, arg, form, ws, fs) ==
  CASE cmd = "warscroll" -> QWarscroll(ws, arg)
    [] cmd \in {"common", "leastcommon"} -> QCommon(ws, arg, cmd = "leastcommon")
    [] cmd \in {"impact", "leastimpact"} -> QImpact(ws, fs, arg, cmd = "leastimpact")
    [] cmd = "faction" -> QFaction(ws, fs, arg, form)
    [] OTHER -> Res("unknown", <<>>, <<>>)

\* the answers of the query branches, tabulated over the commands, the
\* arguments and the contents of the two caches
Tabulate(cmds, forms) ==
  [cmd \in cmds, arg \in {<<>>, <<"s", "k">>, <<"r", "a">>, <<"z">>},
   form \in forms,
   wc \in Contents("w"), fc \in Contents("f") |->
     Query(cmd, arg, form, Table("w", wc), Table("f", fc))]
Answers ==
  Tabulate({"warscroll", "compare", "common", "leastcommon", "impact",
            "leastimpact"}, {Null})
  @@ Tabulate({"faction"}, {Null, <<"c", "a">>, <<"z">>})

\* the value of the cache variables at module load
InitEntry(v) ==
  [c |-> IF v = "A" THEN NoData ELSE EmptyC, at |-> 0]

\* the truthiness test each revision uses for "the cache holds data"
Loaded(v, d, e) ==
  IF v = "A" THEN e.c # NoData ELSE RowCount(d, e.c) > 0

\* the comparison with <= : data exactly one lifetime old passes as fresh
Fresh_Late(v, e, t) == t - e.at <= CACHE_TTL_MS(v)

\* now - CACHE.at < CACHE_TTL_MS
Fresh(v, e, t) == t - e.at < CACHE_TTL_MS(v)

\* what a load does before its first await
LoadDecision(v, d, e, force, hasUrl, t) ==
  IF v = "A" THEN
    IF ~force /\ Loaded(v, d, e) /\ Fresh(v, e, t) THEN "hit" ELSE "fetch"
  ELSE IF v = "P3" THEN
    IF ~force /\ Loaded(v, d, e) /\ Fresh(v, e, t) THEN "hit"
    ELSE IF ~hasUrl THEN "missing" ELSE "fetch"
  ELSE
    IF ~hasUrl THEN "missing"
    ELSE IF ~force /\ Loaded(v, d, e) THEN "hit" ELSE "fetch"

\* the rows assigned, the timestamp left for a later section
Store_Torn(v, c, t0, t) == [c |-> c, at |-> 0]

\* the assignment after a successful fetch: rows and timestamp in one
\* synchronous section; A and P3 stamp the time read before the fetch
Store(v, c, t0, t) ==
  [c |-> c, at |-> IF HasTTL(v) THEN t0 ELSE t]

(* ------------------------- what a handler runs ------------------------ *)
\* one awaited load, or the two loads of a Promise.all (ds of length 2).
\* mode: "hard"   the rejection reaches the handler's catch
\*       "soft"   ensureWarscrolls/ensureFactions: swallowed if rows exist
\*       "report" refreshAllSoft: recorded as the dataset's outcome
\*       "ignore" swallowed by a local catch
Op(ds, force, mode) == [ds |-> ds, force |-> force, mode |-> mode]

WsCmds(v) ==
  IF v \in {"B", "P1"}
  THEN {"warscroll", "compare", "common", "leastcommon", "impact", "leastimpact"}
  ELSE {"warscroll", "compare", "common", "leastcommon", "impact"}

FCmds(v) ==
  IF v \in {"B", "P1"} THEN {"faction", "impact", "leastimpact"} ELSE {"faction"}

Configured(u) == SelectSeq(<<"w", "f">>, LAMBDA d : u[d])

RECURSIVE ReportOps(_)
ReportOps(ds) ==
  IF ds = <<>> THEN <<>>
  ELSE <<Op(<<Head(ds)>>, TRUE, "report")>> \o ReportOps(Tail(ds))

RefreshPlan(v, u) ==
  CASE v = "A" -> <<Op(<<"w">>, TRUE, "hard")>>
    [] v \in {"B", "P1"} -> ReportOps(Configured(u))
    [] v \in {"P0", "P2"} -> <<Op(<<"w", "f">>, TRUE, "hard")>>
    [] OTHER -> <<Op(<<"w">>, TRUE, "hard"), Op(<<"f">>, TRUE, "hard")>>

EnsurePlan(v, cmd, u) ==
  CASE v = "A" -> <<Op(<<"w">>, FALSE, "hard")>>
    [] v \in {"B", "P1"} ->
         (IF cmd \in WsCmds(v) THEN <<Op(<<"w">>, FALSE, "soft")>> ELSE <<>>)
         \o (IF cmd \in FCmds(v) THEN <<Op(<<"f">>, FALSE, "soft")>> ELSE <<>>)
    [] v = "P2" /\ cmd = "faction" ->
         <<Op(<<"f">>, FALSE, "hard")>>
         \o (IF u["w"] THEN <<Op(<<"w">>, FALSE, "ignore")>> ELSE <<>>)
    [] OTHER ->
         (IF cmd \in WsCmds(v) THEN <<Op(<<"w">>, FALSE, "hard")>> ELSE <<>>)
         \o (IF cmd \in FCmds(v) THEN <<Op(<<"f">>, FALSE, "hard")>> ELSE <<>>)

\* isAdmin: revision A has no permission check at all
Rejected(v, cmd, admin) == cmd = "refresh" /\ v # "A" /\ ~admin

Plan(v, cmd, admin, u) ==
  IF cmd = "refresh"
  THEN IF Rejected(v, cmd, admin) THEN <<>> ELSE RefreshPlan(v, u)
  ELSE IF cmd = "help" /\ v # "A" THEN <<>>
  ELSE EnsurePlan(v, cmd, u)

\* the cache warm at ClientReady
WarmPlan(v, u) ==
  CASE v = "A" -> <<Op(<<"w">>, FALSE, "ignore")>>
    [] v = "B" ->
         (IF u["f"] THEN <<Op(<<"f">>, TRUE, "hard")>> ELSE <<>>)
         \o (IF u["w"] THEN <<Op(<<"w">>, TRUE, "hard")>> ELSE <<>>)
    [] v = "P1" ->
         (IF u["f"] THEN <<Op(<<"f">>, TRUE, "ignore")>> ELSE <<>>)
         \o (IF u["w"] THEN <<Op(<<"w">>, TRUE, "ignore")>> ELSE <<>>)
    [] v = "P2" -> <<Op(<<"w", "f">>, TRUE, "hard")>>
    [] OTHER -> <<>>

\* an upper bound on the fetches a list of loads can start
RECURSIVE PlanFetches(_)
PlanFetches(plan) ==
  IF plan = <<>> THEN 0 ELSE Len(Head(plan).ds) + PlanFetches(Tail(plan))

\* the datasets a command cannot answer without
Needs(v, cmd, admin) ==
  IF cmd = "refresh"
  THEN IF v \in {"P0", "P2", "P3"} /\ admin THEN DS ELSE {}
  ELSE IF v = "A" \/ (cmd = "help")
  THEN {}
  ELSE (IF cmd \in WsCmds(v) THEN {"w"} ELSE {})
       \cup (IF cmd \in FCmds(v) THEN {"f"} ELSE {})

(* ------------------------------- tasks -------------------------------- *)
NoEntry == [c |-> NoData, at |-> 0]

\* pc: "idle"  no interaction in this slot
\*     "run"   running (the warm-up before ClientReady)
\*     "wait"  suspended at the await of the fetches in aw
\*     "done"  editReply sent (the record then moves to last)
IdleTask ==
  [pc |-> "idle", cmd |-> "none", admin |-> FALSE, todo |-> <<>>, aw |-> {},
   err |-> "none", errD |-> "-", errRows |-> FALSE, errForce |-> FALSE,
   out |-> [d \in DS |-> "none"], nf |-> [d \in DS |-> 0],
   fres |-> [d \in DS |-> "none"],
   snap |-> [d \in DS |-> NoEntry], dirty |-> {}, refetch |-> FALSE,
   arg |-> <<>>, form |-> Null, used |-> NoUsed,
   reply |-> "none", edits |-> 0]

\* the exception leaves the awaited load and reaches the handler's catch
Raise(tk, kind, d, force, hadRows) ==
  [tk EXCEPT !.todo = <<>>, !.aw = {}, !.err = kind, !.errD = d,
             !.errRows = hadRows, !.errForce = force]

\* the awaited load returned (or its rejection was swallowed)
Pop(tk) == [tk EXCEPT !.todo = Tail(tk.todo), !.aw = {}]

\* the rejection recorded as a success
Rejection_Ok(tk, mode, kind, d, force, hadRows) ==
  CASE mode = "hard" -> Raise(tk, kind, d, force, hadRows)
    [] mode = "soft" ->
         IF hadRows THEN Pop(tk) ELSE Raise(tk, kind, d, force, hadRows)
    [] mode = "report" -> Pop([tk EXCEPT !.out[d] = "ok"])
    [] OTHER -> Pop(tk)

\* a rejected load, by the catch that surrounds it
Rejection(tk, mode, kind, d, force, hadRows) ==
  CASE mode = "hard" -> Raise(tk, kind, d, force, hadRows)
    [] mode = "soft" ->
         IF hadRows THEN Pop(tk) ELSE Raise(tk, kind, d, force, hadRows)
    [] mode = "report" -> Pop([tk EXCEPT !.out[d] = "fail"])
    [] OTHER -> Pop(tk)

\* the handler after its loads: the branch of the command.  The query
\* branches are those of revision B; the other revisions answer a query
\* from whatever their loads left
Handle(v, tk, cch) ==
  IF tk.err # "none" THEN Thrown(tk.err)
  ELSE IF tk.cmd = "refresh"
  THEN Res(IF Rejected(v, tk.cmd, tk.admin) THEN "adminOnly"
           ELSE IF v \in {"B", "P1"} THEN "report" ELSE "refreshed", <<>>, <<>>)
  ELSE IF tk.cmd = "help" /\ v # "A" THEN Res("help", <<>>, <<>>)
  ELSE IF v = "B"
  THEN Answers[tk.cmd, tk.arg, tk.form, cch["w"].c, cch["f"].c]
  ELSE Res("data", <<>>, <<>>)

\* the text of an error reply: revisions A and P3 answer "Internal error
\* (check logs)", the others add err.message
Message(v, tk) ==
  IF tk.err = "none" THEN "none"
  ELSE IF v \in {"A", "P3"} THEN "generic" ELSE tk.err

\* a handler whose catch sends nothing
Finalize_NoCatch(t, tk) ==
  IF t = Warm THEN [IdleTask EXCEPT !.pc = "done", !.cmd = tk.cmd]
  ELSE IF tk.err # "none"
  THEN [tk EXCEPT !.pc = "wait", !.todo = <<Op(<<"w">>, FALSE, "hard")>>]
  ELSE [tk EXCEPT !.pc = "done", !.edits = @ + 1]

\* the loads of the handler are over, by return or by throw: what is left
\* is its branch and one editReply; the warm-up answers nobody
Finalize(t, tk) ==
  IF t = Warm THEN [IdleTask EXCEPT !.pc = "done", !.cmd = tk.cmd]
  ELSE [tk EXCEPT !.pc = "done", !.edits = @ + 1]

\* interaction.editReply: the reply of the branch, or of the catch block
editReply(tk, h) ==
  [tk EXCEPT !.reply = h.kind, !.err = h.err, !.used = h.used]

\* fetch ids: the smallest ones not carried by a fetch in flight
FreeId(infl) ==
  LET Ids == {f.id : f \in infl}
  IN CHOOSE i \in 1..(Cardinality(infl) + 1) :
       i \notin Ids /\ \A j \in 1..(i - 1) : j \in Ids

\* t0 is the Date.now() that loadCSV/getWarscrollData/getFactionData read
\* before fetching; the other revisions read no clock there.  rank orders
\* the fetches of a dataset that are in flight together by their start
Fetch(v, id, d, t, clock, force, mode, infl) ==
  [id |-> id, d |-> d, t |-> t, t0 |-> IF HasTTL(v) THEN clock ELSE 0,
   force |-> force, mode |-> mode,
   rank |-> 1 + Cardinality({f \in infl : f.d = d}), newer |-> FALSE]

\* the fetches left in flight when f has settled: their order is kept, and
\* if f stored its rows, those started before f will find rows of a load
\* started after them
Settled(infl, f, ok) ==
  {[g EXCEPT !.rank = IF g.d = f.d /\ g.rank > f.rank THEN @ - 1 ELSE @,
             !.newer = @ \/ (ok /\ g.d = f.d /\ g.rank < f.rank)] :
     g \in infl \ {f}}

\* refreshAll: Promise.all([loadWarscrolls(true), loadFactions(true)]); both
\* loads run to their first await; a missing URL rejects the whole at once
\* while the other load's fetch goes on unawaited
StartBoth(v, u, t, tk, cch, infl, lok, clock) ==
  LET op == Head(tk.todo)
      first == op.ds[1]
      second == op.ds[2]
      id1 == FreeId(infl)
      f1 == Fetch(v, id1, first, t, clock, op.force, op.mode, infl)
      infl1 == IF u[first] THEN infl \cup {f1} ELSE infl
      f2 == Fetch(v, FreeId(infl1), second, t, clock, op.force, op.mode,
                 infl1)
      infl2 == IF u[second] THEN infl1 \cup {f2} ELSE infl1
      counted == [tk EXCEPT !.nf = [d \in DS |-> IF u[d] THEN tk.nf[d] + 1
                                                 ELSE tk.nf[d]]]
      missing == IF u[first] THEN second ELSE first
  IN
  [tk |-> IF u[first] /\ u[second]
          THEN [counted EXCEPT !.pc = "wait", !.aw = {f1.id, f2.id}]
          ELSE Raise(counted, "config", missing, op.force,
                     RowCount(missing, cch[missing].c) > 0),
   infl |-> infl2,
   lok |-> [d \in DS |-> ~u[d] /\ lok[d]]]

\* the handler runs from where it was resumed to its next pending fetch, or
\* to its reply: a load that hits the cache or throws before fetching does
\* not let another event in
RECURSIVE Run(_, _, _, _, _, _, _, _)
Run(v, u, t, tk, cch, infl, lok, clock) ==
  IF tk.todo = <<>>
  THEN [tk |-> Finalize(t, tk), infl |-> infl, lok |-> lok]
  ELSE
    LET op == Head(tk.todo)
        d == op.ds[1]
        dec == LoadDecision(v, d, cch[d], op.force, u[d], clock)
        hadRows == RowCount(d, cch[d].c) > 0
        both == StartBoth(v, u, t, tk, cch, infl, lok, clock)
        id == FreeId(infl)
    IN
    IF Len(op.ds) = 2
    THEN IF both.tk.pc = "wait" THEN both
         ELSE Run(v, u, t, both.tk, cch, both.infl, both.lok, clock)
    ELSE IF dec = "missing"
    THEN Run(v, u, t, Rejection(tk, op.mode, "config", d, op.force, hadRows),
             cch, infl, lok, clock)
    ELSE IF dec = "hit"
    THEN Run(v, u, t, Pop(tk), cch, infl,
             lok, clock)
    ELSE [tk |-> [tk EXCEPT !.pc = "wait", !.aw = {id}, !.nf[d] = @ + 1,
                            !.refetch = @ \/ (~op.force /\ lok[d])],
          infl |-> infl \cup {Fetch(v, id, d, t, clock, op.force, op.mode, infl)},
          lok |-> [lok EXCEPT ![d] = FALSE]]

(* ------------------------------- scope -------------------------------- *)
\* the interactions of a scope: command, administrator flag, name or
\* faction option, formation option; "cache" keeps to three commands and
\* one argument each, "query" draws every command and argument
Inputs(s) ==
  LET cmds == IF s = "cache" THEN {"refresh", "warscroll", "faction"}
              ELSE {"help", "refresh", "warscroll", "compare", "common",
                    "leastcommon", "impact", "leastimpact", "faction"}
      args(cmd) ==
        IF cmd \in {"help", "refresh", "compare"} THEN {<<>>}
        ELSE IF s = "query" THEN {<<"s", "k">>, <<"r", "a">>, <<"z">>}
        ELSE IF cmd = "warscroll" THEN {<<"r", "a">>} ELSE {<<"s", "k">>}
      forms(cmd) ==
        IF s = "query" /\ cmd = "faction" THEN {Null, <<"c", "a">>, <<"z">>}
        ELSE {Null}
  IN UNION {{<<cmd, admin, arg, form>> :
               admin \in IF cmd = "refresh" THEN BOOLEAN ELSE {FALSE},
               arg \in args(cmd), form \in forms(cmd)} : cmd \in cmds}
ScopeContents(s, d) ==
  IF s = "query" THEN Contents(d)
  ELSE IF d = "w" THEN {EmptyC, "W1"} ELSE {EmptyC, "F1"}

(* -------------------------------- Init -------------------------------- *)
\* no text is being parsed, no formula evaluated
NoParse == [pc |-> "idle"]
NoCalc == [op |-> "none"]

\* the module state after load, for a revision and its environment
AtLoad(s, v, u) ==
  /\ variant = v
  /\ url = u
  /\ scope = s
  /\ now = 1
  /\ cache = [d \in DS |-> InitEntry(v)]
  /\ tasks = [t \in TaskIds |->
               IF t = Warm
               THEN [IdleTask EXCEPT !.pc = "run", !.cmd = "warm",
                                     !.todo = WarmPlan(v, u)]
               ELSE IdleTask]
  /\ inflight = {}
  /\ lastOK = [d \in DS |-> FALSE]
  /\ last = IdleTask
  /\ ninv = 0

InitScoped(s) ==
  /\ \E v \in IF s = "query" THEN {"B"} ELSE Variants :
     \* revision A exits at startup without CSV_URL
     \E u \in IF v = "A" THEN {[d \in DS |-> d = "w"]} ELSE [DS -> BOOLEAN] :
       AtLoad(s, v, u)
  /\ parser = NoParse
  /\ calc = NoCalc

Init == InitScoped("cache")

(* ------------------------------ actions ------------------------------- *)
\* fetches in flight plus those the suspended handlers may still start
RECURSIVE Pending(_)
Pending(S) ==
  IF S = {} THEN 0
  ELSE LET t == CHOOSE x \in S : TRUE
           tk == tasks[t]
       IN PlanFetches(IF tk.pc = "wait" THEN Tail(tk.todo) ELSE tk.todo)
          + Pending(S \ {t})

\* a handler that replied frees its slot; last is the answer sent by the
\* step just taken, with the handler's record at that point (IdleTask if
\* the step sent none)
Replied(t, tk) == t # Warm /\ tk.pc = "done"
Slot(t, tk) == IF Replied(t, tk) THEN IdleTask ELSE tk
Answer(t, tk, cch) ==
  IF Replied(t, tk) THEN editReply(tk, Handle(variant, tk, cch)) ELSE IdleTask

\* interactionCreate: the handler defers the reply (nothing of the caches is
\* read or written until deferReply returns) and runs to its first pending
\* fetch or to its reply
Invoke(t, cmd, admin, arg, form) ==
  LET tk == [IdleTask EXCEPT !.pc = "run", !.cmd = cmd, !.admin = admin,
                             !.arg = arg, !.form = form,
                             !.todo = Plan(variant, cmd, admin, url)]
      \* snapshot of the caches a refresh starts from
      snap == [d \in DS |-> IF cmd = "refresh" /\ tk.todo # <<>>
                             THEN cache[d] ELSE NoEntry]
      r == Run(variant, url, t, [tk EXCEPT !.snap = snap], cache, inflight,
               lastOK, now)
  IN
  /\ tasks[t].pc = "idle"
  /\ \A s \in Handlers : s < t => tasks[s].pc # "idle"
  /\ ninv < MaxInv
  /\ ninv' = ninv + 1
  /\ Cardinality(inflight) + Pending(TaskIds) + PlanFetches(tk.todo) <= MaxFetch
  /\ tasks' = [tasks EXCEPT ![t] = Slot(t, r.tk)]
  /\ last' = Answer(t, r.tk, cache)
  /\ inflight' = r.infl
  /\ lastOK' = r.lok
  /\ UNCHANGED <<variant, url, scope, now, cache, parser, calc>>

\* ClientReady: the cache warm starts
WarmUp ==
  LET r == Run(variant, url, Warm, tasks[Warm], cache, inflight, lastOK, now)
  IN
  /\ tasks[Warm].pc = "run"
  /\ tasks' = [tasks EXCEPT ![Warm] = r.tk]
  /\ last' = IdleTask
  /\ inflight' = r.infl
  /\ lastOK' = r.lok
  /\ UNCHANGED <<variant, url, scope, now, cache, ninv, parser, calc>>

\* the fetch answered res.ok: the parsed rows are stored and the awaiting
\* handler goes on
FetchOk(f, c) ==
  LET tk == tasks[f.t]
      awaited == f.id \in tk.aw
      e == Store(variant, c, f.t0, now)
      cch == [cache EXCEPT ![f.d] = e]
      rest == tk.aw \ {f.id}
      mine == [tk EXCEPT !.fres[f.d] = "ok",
                         !.out[f.d] = IF f.mode = "report" THEN "ok" ELSE @,
                         !.aw = rest]
      lok == [lastOK EXCEPT ![f.d] =
                awaited /\ ~f.force /\ (HasTTL(variant) => Fresh(variant, e, now))]
      r == IF awaited /\ rest = {}
           THEN Run(variant, url, f.t, Pop(mine), cch, Settled(inflight, f, TRUE),
                    lok, now)
           ELSE [tk |-> IF awaited THEN mine ELSE tk,
                 infl |-> Settled(inflight, f, TRUE), lok |-> lok]
  IN
  /\ f \in inflight
  /\ c \in ScopeContents(scope, f.d)
  /\ cache' = cch
  /\ inflight' = r.infl
  /\ lastOK' = r.lok
  /\ tasks' = [t \in TaskIds |->
                 IF t = f.t THEN Slot(t, r.tk)
                 ELSE IF tasks[t].cmd = "refresh" /\ tasks[t].pc = "wait"
                      THEN [tasks[t] EXCEPT !.dirty = @ \cup {f.d}]
                      ELSE tasks[t]]
  /\ last' = Answer(f.t, r.tk, cch)
  /\ UNCHANGED <<variant, url, scope, now, ninv, parser, calc>>

\* a transport error or a non-success status: fetchCSV/loadCSV throws
FetchFail(f) ==
  LET tk == tasks[f.t]
      awaited == f.id \in tk.aw
      hadRows == RowCount(f.d, cache[f.d].c) > 0
      r == IF awaited
           THEN Run(variant, url, f.t,
                    Rejection([tk EXCEPT !.fres[f.d] = "fail"],
                              f.mode, "fetch", f.d, f.force, hadRows),
                    cache, Settled(inflight, f, FALSE), lastOK, now)
           ELSE [tk |-> tk, infl |-> Settled(inflight, f, FALSE), lok |-> lastOK]
  IN
  /\ f \in inflight
  /\ inflight' = r.infl
  /\ lastOK' = r.lok
  /\ tasks' = [tasks EXCEPT ![f.t] = Slot(f.t, r.tk)]
  /\ last' = Answer(f.t, r.tk, cache)
  /\ UNCHANGED <<variant, url, scope, now, cache, ninv, parser, calc>>

\* one cache lifetime passes; the clock starts at 1 and stops after
\* MaxTime ticks
Tick ==
  /\ now < 1 + MaxTime
  /\ now' = now + 1
  /\ lastOK' = [d \in DS |->
                  lastOK[d] /\ (HasTTL(variant) => Fresh(variant, cache[d], now + 1))]
  /\ last' = IdleTask
  /\ UNCHANGED <<variant, url, scope, cache, tasks, inflight, ninv, parser, calc>>

Next ==
  \/ \E t \in IF scope = "cache" THEN Handlers ELSE {1}, i \in Inputs(scope) :
       Invoke(t, i[1], i[2], i[3], i[4])
  \/ WarmUp
  \/ \E f \in inflight, c \in Contents("w") \cup Contents("f") : FetchOk(f, c)
  \/ \E f \in inflight : FetchFail(f)
  \/ Tick

Spec == Init /\ [][Next]_vars

\* one handler at a time, every command and argument of revision B
QuerySpec == InitScoped("query") /\ [][Next]_vars

(* ====================== C1  soft-fail refresh ========================= *)
SoftVariants == {"B", "P1"}

HasRows(d, e) == RowCount(d, e.c) > 0

\* the step just taken sent the answer to a /refresh that refreshAllSoft ran
SoftRefreshAnswered ==
  variant \in SoftVariants /\ last.pc = "done" /\ last.cmd = "refresh"
  /\ last.admin

EnsureFailed ==
  last.pc = "done" /\ last.err = "fetch" /\ ~last.errForce

\* C2: when the fetch of a non-forced ensure fails and prior rows exist
\* (fresh or merely expired), the ensure completes normally and the command
\* is answered from the old rows; a failure is raised only if no prior rows
\* exist.  Refuted by the revisions whose loads have no soft-fail wrapper.
C2_EnsureOnFailure == EnsureFailed => ~last.errRows

(* ====================== C3  atomic replace ============================ *)
\* the timestamp a completed load assigns
Stamp(f) == IF HasTTL(variant) THEN f.t0 ELSE now

\* C3: rows and cached-at timestamp are replaced together: every step that
\* changes a dataset's rows or its timestamp is the completion of one fetch
\* of that dataset and leaves the rows and the timestamp of that one load,
\* so a handler (which reads between two steps) never sees a mix.
C3_AtomicReplace ==
  [][\A d \in DS :
       cache'[d] # cache[d] =>
         \E f \in inflight :
           /\ f.d = d /\ f \notin inflight'
           /\ cache'[d].at = Stamp(f)
           /\ cache'[d].c \in ScopeContents(scope, d)]_vars

\* a handler answers from rows replaced while another load of the same
\* dataset is still in flight
C3_Witness ==
  /\ last.pc = "done" /\ last.reply = "data"
  /\ \E d \in DS :
       /\ last.fres[d] = "ok" /\ HasRows(d, cache[d]) /\ cache[d].at = now
       /\ \E f \in inflight : f.d = d

(* ====================== C4  ensure idempotence ======================== *)
\* C4: whatever content the source returned, two sequential non-forced
\* ensure calls on a dataset (within the TTL where one applies) perform at
\* most one fetch in total: no ensure starts a fetch right after an ensure
\* that fetched and stored.  Refuted when the stored content has no rows.
C4_EnsureIdempotent == \A t \in TaskIds : ~tasks[t].refetch

(* ====================== C5  unauthorized refresh ====================== *)
\* C5: a refresh command from a non-administrator is rejected before any
\* dataset access: it starts no fetch, changes no cache or timestamp, and
\* is answered with the admin-only rejection.  Refuted by revision A.
C5_UnauthorizedRefresh ==
  /\ \A t \in Handlers :
       (tasks[t].cmd = "refresh" /\ ~tasks[t].admin)
         => \A d \in DS : tasks[t].nf[d] = 0
  /\ (last.pc = "done" /\ last.cmd = "refresh" /\ ~last.admin)
       => (last.reply = "adminOnly" /\ \A d \in DS : last.nf[d] = 0)

(* ====================== C6  refresh outcome =========================== *)
\* what the answer to a refresh says about dataset d
Reported(tk, d) ==
  CASE tk.reply = "report" -> tk.out[d]
    [] tk.reply = "refreshed" -> "ok"
    [] OTHER -> "error"

\* what happened to dataset d during the refresh
Outcome(tk, d) ==
  IF ~url[d] THEN "none" ELSE IF tk.fres[d] = "ok" THEN "ok" ELSE "fail"

AuthorizedRefreshAnswered ==
  last.pc = "done" /\ last.cmd = "refresh" /\ ~Rejected(variant, last.cmd, last.admin)

\* C6: an authorized refresh performs exactly one fetch for each configured
\* dataset, whatever the cache holds, and none for an unconfigured one, and
\* reports for each dataset exactly not-configured, succeeded or failed
\* (kept cache).  Refuted by the revisions that refresh with plain loads.
C6_RefreshOutcome ==
  AuthorizedRefreshAnswered =>
    \A d \in Datasets(variant) :
      /\ last.nf[d] = IF url[d] THEN 1 ELSE 0
      /\ Reported(last, d) = Outcome(last, d)

(* ==================== C7  configuration missing ======================= *)
\* C7: while a dataset's URL is not configured, every load of it fails
\* with the missing-URL error, starts no fetch and leaves the cache as it
\* was, and every command that needs the dataset is answered with that
\* error.  Refuted where the reply hides the error behind a fixed text.
C7_ConfigurationMissing ==
  \A d \in Datasets(variant) :
    ~url[d] =>
      /\ \A t \in TaskIds : tasks[t].nf[d] = 0
      /\ \A f \in inflight : f.d # d
      /\ cache[d] = InitEntry(variant)
      /\ (last.pc = "done" /\ d \in Needs(variant, last.cmd, last.admin))
           => (last.reply = "error" /\ Message(variant, last) = "config")

(* ================= C8  every command gets an answer =================== *)
\* the event loop runs every callback that is ready, and every fetch
\* settles: fetch() resolves or rejects (undici gives up on a silent
\* server after its headers/body timeouts)
LiveSpec ==
  /\ InitScoped("live")
  /\ [][Next]_vars
  /\ WF_vars(WarmUp)
  /\ \A id \in 1..MaxFetch :
       WF_vars(\E f \in inflight :
                 /\ f.id = id
                 /\ (FetchFail(f) \/ \E c \in Contents(f.d) : FetchOk(f, c)))

C9_ErrorOnlyOnLoadFailure ==
  (last.pc = "done" /\ last.reply = "error") => last.err \in {"fetch", "config"}

(* ==================== C10  minimum-games filter ======================= *)
Games(d, row) == IF d = "w" THEN warscrollGames(row) ELSE factionGames(row)

\* C10: every record a query command returns or bases its answer on has
\* games >= MIN_GAMES.  Refuted by /faction of revision B, which picks its
\* row from the unfiltered faction sheet.
C10_MinimumGames ==
  last.pc = "done" =>
    \A d \in DS : \A i \in 1..Len(last.used[d]) :
      AtLeast(Games(d, last.used[d][i]), MIN_GAMES)

(* ============================ CSV parsing ============================= *)
\* the bounds of the texts parsed
MaxLines == 4

Quote == "\""

\* !row.some(v => String(v).trim() !== "")
Blank(row) == \A i \in 1..Len(row) : Trim(row[i]) = <<>>

Range(f) == {f[i] : i \in DOMAIN f}

\* .replace(/\r\n/g, "\n").replace(/\r/g, "\n"); no text here opens with the
\* byte-order mark that is stripped first
RECURSIVE LineEndings(_)
LineEndings(t) ==
  IF t = <<>> THEN <<>>
  ELSE IF Head(t) = "\r"
  THEN <<"\n">> \o LineEndings(IF Len(t) > 1 /\ t[2] = "\n"
                               THEN SubSeq(t, 3, Len(t)) ELSE Tail(t))
  ELSE <<Head(t)>> \o LineEndings(Tail(t))

\* rows.push(row), unless every field of the row is blank
PushRow(v, rows, row) ==
  IF Blank(row) THEN rows
  ELSE Append(rows, IF v = "A" THEN [j \in 1..Len(row) |-> Trim(row[j])] ELSE row)

\* one iteration of the for loop of parseCSV
Scan(v, p) ==
  LET c == p.text[p.i]
      next == IF p.i < Len(p.text) THEN p.text[p.i + 1] ELSE "undefined"
      row == Append(p.row, p.field)
  IN IF c = Quote /\ p.inQuotes /\ next = Quote
     THEN [p EXCEPT !.field = Append(@, Quote), !.i = @ + 2]
     ELSE IF c = Quote
     THEN [p EXCEPT !.inQuotes = ~@, !.i = @ + 1]
     ELSE IF ~p.inQuotes /\ c = ","
     THEN [p EXCEPT !.row = row, !.field = <<>>, !.i = @ + 1]
     ELSE IF ~p.inQuotes /\ (c = "\n" \/ (v = "A" /\ c = "\r"))
     THEN [p EXCEPT !.rows = PushRow(v, @, row), !.row = <<>>, !.field = <<>>,
                    !.i = @ + (IF c = "\r" /\ next = "\n" THEN 2 ELSE 1)]
     ELSE [p EXCEPT !.field = Append(@, c), !.i = @ + 1]

\* the records the handlers read: obj[h] = r[i] ?? "" in the record
\* parsers, rowToObj(headers, row) in the others (a later column of the
\* same name overwrites an earlier one)
Records(v, rows) ==
  IF rows = <<>> THEN <<>>
  ELSE LET header == IF v = "B" THEN [j \in 1..Len(rows[1]) |-> Trim(rows[1][j])]
                     ELSE rows[1]
       IN [k \in 1..(Len(rows) - 1) |->
             [h \in Range(header) |->
                LET j == CHOOSE x \in 1..Len(header) :
                           /\ header[x] = h
                           /\ \A y \in (x + 1)..Len(header) : header[y] # h
                    r == rows[k + 1]
                IN IF j <= Len(r) THEN r[j]
                   ELSE IF v = "B" THEN <<>> ELSE Undefined]]

\* String.prototype.split for a one-character separator
RECURSIVE Split(_, _)
Split(t, sep) ==
  IF \A i \in 1..Len(t) : t[i] # sep THEN <<t>>
  ELSE LET k == CHOOSE i \in 1..Len(t) :
                  t[i] = sep /\ \A j \in 1..(i - 1) : t[j] # sep
       IN <<SubSeq(t, 1, k - 1)>> \o Split(SubSeq(t, k + 1, Len(t)), sep)

\* loadCSV of revision P3: split on "\n" and ",", one quote stripped from
\* each end of a cell (c.replace(/^"|"$/g, "")), rows of one cell dropped
SplitRows(t) ==
  LET StripQuotes(c) ==
        LET a == IF c # <<>> /\ Head(c) = Quote THEN Tail(c) ELSE c
        IN IF a # <<>> /\ a[Len(a)] = Quote THEN SubSeq(a, 1, Len(a) - 1) ELSE a
      lines == Split(t, "\n")
      cells == [l \in 1..Len(lines) |->
                  LET cs == Split(lines[l], ",")
                  IN [j \in 1..Len(cs) |-> Trim(StripQuotes(cs[j]))]]
  IN SelectSeq(cells, LAMBDA r : Len(r) > 1)

(* the sheets parsed: a grid of cells written as CSV text *)
RECURSIVE Doubled(_)
Doubled(cell) ==
  IF cell = <<>> THEN <<>>
  ELSE (IF Head(cell) = Quote THEN <<Quote, Quote>> ELSE <<Head(cell)>>)
       \o Doubled(Tail(cell))

\* a cell with a comma, a quote or a newline is written in quotes
NeedsQuotes(cell) == \E i \in 1..Len(cell) : cell[i] \in {",", Quote, "\n"}
Encode(cell) ==
  IF NeedsQuotes(cell) THEN <<Quote>> \o Doubled(cell) \o <<Quote>> ELSE cell

RECURSIVE Join(_, _)
Join(parts, sep) ==
  IF parts = <<>> THEN <<>>
  ELSE IF Len(parts) = 1 THEN parts[1]
  ELSE parts[1] \o sep \o Join(Tail(parts), sep)

Text(grid, eol) ==
  Join([k \in 1..Len(grid) |->
          Join([j \in 1..Len(grid[k]) |-> Encode(grid[k][j])], <<",">>)], eol)

\* the sheets: up to MaxLines rows, each one of these
Grids ==
  UNION {[1..n -> { <<<<"h">>, <<"k">>>>,
                    <<<<"x">>>>,
                    <<<<"x">>, <<"y">>>>,
                    <<<<>>>>,
                    <<<<" ">>, <<>>>>,
                    <<<<"a", ",", Quote, "b", Quote>>, <<"y">>>>,
                    <<<<"x", "\n", "y">>, <<"z">>>> }] : n \in 0..MaxLines}

\* res.text() arrived: the parser starts on it
StartParse(v, grid, eol) ==
  [pc |-> "scan", grid |-> grid,
   text |-> IF v = "B" THEN LineEndings(Text(grid, eol)) ELSE Text(grid, eol),
   i |-> 1, rows |-> <<>>, row |-> <<>>, field |-> <<>>, inQuotes |-> FALSE,
   out |-> <<>>]

ParseInit ==
  /\ \E v \in {"A", "B", "P3"} : AtLoad("parse", v, [d \in DS |-> TRUE])
  /\ \E grid \in Grids, eol \in {<<"\n">>, <<"\r", "\n">>} :
       parser = StartParse(variant, grid, eol)
  /\ calc = NoCalc

bot == <<variant, url, scope, now, cache, tasks, inflight, lastOK, last, ninv>>

\* the body of the for loop
ParseStep ==
  /\ parser.pc = "scan" /\ variant # "P3"
  /\ parser.i <= Len(parser.text)
  /\ parser' = Scan(variant, parser)
  /\ UNCHANGED <<bot, calc>>

\* after the loop: the last field and row, then the header and the records
ParseEnd ==
  /\ parser.pc = "scan" /\ variant # "P3"
  /\ parser.i > Len(parser.text)
  /\ parser' = [parser EXCEPT
       !.pc = "done",
       !.rows = PushRow(variant, @, Append(parser.row, parser.field)),
       !.out = Records(variant,
                       PushRow(variant, parser.rows,
                               Append(parser.row, parser.field)))]
  /\ UNCHANGED <<bot, calc>>

\* loadCSV of revision P3
SplitLoad ==
  /\ parser.pc = "scan" /\ variant = "P3"
  /\ parser' = [parser EXCEPT !.pc = "done", !.rows = SplitRows(parser.text),
                              !.out = Records("P3", SplitRows(parser.text))]
  /\ UNCHANGED <<bot, calc>>

ParseNext == ParseStep \/ ParseEnd \/ SplitLoad

ParseSpec == ParseInit /\ [][ParseNext]_vars

\* the rows of the sheet that are not blank: its header and its data rows
NonBlank(grid) == SelectSeq(grid, LAMBDA r : ~Blank(r))
Parsed == parser.pc = "done"

(* ========================= C11  parser shape ========================== *)
\* C11: a text whose first non-blank row is a header H followed by N
\* non-blank data rows parses to exactly N records in input order, each
\* with exactly len(H) fields keyed by the header names in position, a
\* missing trailing field being the empty string.  Refuted by the
\* split-based loader of revision P3 (and by rowToObj of revision A).
C11_ParserShape ==
  (Parsed /\ NonBlank(parser.grid) # <<>>) =>
    LET nb == NonBlank(parser.grid)
        H == nb[1]
    IN /\ Len(parser.out) = Len(nb) - 1
       /\ \A k \in 1..(Len(nb) - 1) :
            /\ k <= Len(parser.out) => DOMAIN parser.out[k] = Range(H)
            /\ k <= Len(parser.out) => Cardinality(DOMAIN parser.out[k]) = Len(H)
            /\ \A j \in 1..Len(H) :
                 (k <= Len(parser.out) /\ H[j] \in DOMAIN parser.out[k]) =>
                   parser.out[k][H[j]] =
                     IF j <= Len(nb[k + 1]) THEN nb[k + 1][j] ELSE <<>>

(* ========================= C12  quoted fields ========================= *)
HasQuoted(row) == \E j \in 1..Len(row) : NeedsQuotes(row[j])

\* C12: a quoted field is returned verbatim, a doubled quote read as one
\* quote, a comma or newline inside the quotes kept as content, and the
\* number of rows is not changed by newlines inside quotes.  Refuted by
\* the split-based loader of revision P3, which knows no quoting.
C12_QuotedFields ==
  LET nb == NonBlank(parser.grid)
      H == nb[1]
  IN (Parsed /\ \E k \in 1..Len(nb) : HasQuoted(nb[k])) =>
       /\ Len(parser.out) = Len(nb) - 1
       /\ \A k \in 1..(Len(nb) - 1) : \A j \in 1..Len(H) :
            (j <= Len(nb[k + 1]) /\ NeedsQuotes(nb[k + 1][j])) =>
              /\ k <= Len(parser.out)
              /\ H[j] \in DOMAIN parser.out[k]
              /\ parser.out[k][H[j]] = nb[k + 1][j]

(* ==================== C13  blank rows, empty input ==================== *)
\* C13: no row whose fields are all empty after trimming becomes a record
\* or the header, wherever it stands, and a text without a non-blank row
\* gives an empty dataset.  Refuted by the loader of revision P3, which
\* keeps every row of two or more cells.
C13_BlankRows ==
  Parsed =>
    /\ \A k \in 1..Len(parser.rows) : ~Blank(parser.rows[k])
    /\ NonBlank(parser.grid) = <<>> => (parser.rows = <<>> /\ parser.out = <<>>)

(* ============================ helper calls ============================ *)
CalcInit ==
  /\ \E v \in Variants : AtLoad("calc", v, [d \in DS |-> TRUE])
  /\ parser = NoParse
  /\ calc = NoCalc

\* toNum / asNumber / parsePercent is called on a cell
CallToNum ==
  /\ \E x \in { Null, <<>>, <<" ">>, <<"5">>, <<"5", "0", "%">>,
                <<" ", "4", "2", " ">>, <<"1", ",", "0", "0", "0">>,
                <<"-", "7">>, <<"x">>, <<"%">> } :
       calc' = [op |-> "toNum", in |-> x,
                out |-> CASE variant = "B" -> toNum(x)
                          [] variant \in {"P0", "P1", "P2"} -> toNumP(x)
                          [] variant = "P3" -> parsePercent(x)
                          [] OTHER -> asNumber(x)]
  /\ UNCHANGED <<bot, parser>>

\* a numeric getter of revision B is called on a record whose header
\* names the column by its first alias, by a later one, by both, in
\* another case, or not at all
CallGetter ==
  /\ variant = "B"
  /\ \E g \in 1..4 :
     \E row \in
       { ("Warscroll" :> <<"R", "a">>) @@ ("Games" :> <<"9">>)
           @@ ("Win %" :> <<"5", "5", "%">>) @@ ("Win Rate" :> <<"6", "0", "%">>)
           @@ ("Used" :> <<"4", "0", "%">>),
         ("Warscroll" :> <<"R", "a">>) @@ ("games" :> <<"9">>)
           @@ ("Win Rate" :> <<"6", "0", "%">>) @@ ("Win w/o" :> <<"5", "0", "%">>),
         ("Warscroll" :> <<"R", "a">>) @@ ("GAMES" :> <<"9">>)
           @@ ("win %" :> <<"5", "5", "%">>),
         ("Warscroll" :> <<"R", "a">>) @@ ("Games" :> <<>>)
           @@ ("Win %" :> <<"x">>) @@ ("Used %" :> <<"1", "0", "%">>) } :
       calc' = [op |-> "getter", row |-> row,
                aliases |-> <<GamesAliases, UsedPctAliases, WinPctAliases,
                              WinWithoutAliases>>[g],
                raw |-> getCol(row, <<GamesAliases, UsedPctAliases,
                                      WinPctAliases, WinWithoutAliases>>[g]),
                out |-> <<warscrollGames(row), warscrollUsedPct(row),
                          warscrollWinPct(row), warscrollWinWithoutPct(row)>>[g]]
  /\ UNCHANGED <<bot, parser>>

(* ------------------------ rendering of numbers ------------------------ *)
\* the numbers handed to the formatters carry one decimal: v counts
\* Scale-ths, so Dec(Num(5)) is 5.0 and [fin |-> TRUE, v |-> -4] is -0.4
Scale == 10
Dec(n) == [fin |-> n.fin, v |-> n.v * Scale]

\* the placeholder character U+2014
Dash == "emdash"

\* String(n) of an integer; -0 prints as "0"
RECURSIVE String(_)
String(n) ==
  IF n < 0 THEN <<"-">> \o String(0 - n)
  ELSE IF n < 10 THEN <<Digits[n + 1]>>
  ELSE String(n \div 10) \o <<Digits[(n % 10) + 1]>>

\* Math.round: the nearest integer, halves towards +Infinity
MathRound(x) == (x.v + Scale \div 2) \div Scale

\* revisions B, P0, P1 and P2; x.toFixed(0) writes the sign, then the
\* magnitude rounded with halves upwards
fmtPct(x) ==
  LET m == IF x.v < 0 THEN 0 - x.v ELSE x.v
      t == String((m + Scale \div 2) \div Scale)
  IN IF ~x.fin THEN <<Dash>>
     ELSE (IF x.v < 0 THEN <<"-">> ELSE <<>>) \o t \o <<"%">>
fmtInt(x) == IF x.fin THEN String(MathRound(x)) ELSE <<Dash>>
fmtPP(x) ==
  IF ~x.fin THEN <<Dash>>
  ELSE (IF x.v > 0 THEN <<"+">> ELSE <<>>) \o String(MathRound(x)) \o <<"p", "p">>

\* revision A: the cell itself, with a "%" appended when it has none
fmtPct_A(v) ==
  LET s == Trim(IF v \in {Null, Undefined} THEN <<>> ELSE v)
  IN IF s = <<>> THEN <<Dash>>
     ELSE IF \E i \in 1..Len(s) : s[i] = "%" THEN s ELSE s \o <<"%">>

\* revision A
ppDiff(winPct, winWithoutPct) ==
  LET a == asNumber(winPct)
      b == asNumber(winWithoutPct)
      d == a.v - b.v
  IN IF ~a.fin \/ ~b.fin THEN <<Dash>>
     ELSE (IF d >= 0 THEN <<"+">> ELSE <<>>) \o String(d) \o <<"p", "p">>

\* a formatter is called on a number (revisions B, P0, P1, P2)
CallFormat ==
  /\ variant \in {"B", "P0", "P1", "P2"}
  /\ \E x \in {NaN} \cup {[fin |-> TRUE, v |-> t] :
                           t \in {0 - 100, 0 - 6, 0 - 4, 0, 4, 100}} :
     \E f \in {<<"fmtPct", fmtPct(x)>>, <<"fmtInt", fmtInt(x)>>,
               <<"fmtPP", fmtPP(x)>>} :
       calc' = [op |-> f[1], in |-> x, out |-> f[2]]
  /\ UNCHANGED <<bot, parser>>

\* ppDiff is called on two cells (revision A)
Call_ppDiff ==
  /\ variant = "A"
  /\ \E cells \in {Undefined, <<>>, <<"4", "0", "%">>, <<"5", "0", "%">>,
                   <<"6", "0", "%">>, <<"x">>}
                  \X {Undefined, <<>>, <<"5", "0", "%">>, <<"x">>} :
       calc' = [op |-> "fmtPP",
                in |-> IF asNumber(cells[1]).fin /\ asNumber(cells[2]).fin
                       THEN Dec(Num(asNumber(cells[1]).v - asNumber(cells[2]).v))
                       ELSE NaN,
                out |-> ppDiff(cells[1], cells[2])]
  /\ UNCHANGED <<bot, parser>>

(* ---------------- the list commands of revision A --------------------- *)
\* revision A: normalise(str = ""); a leading "the " is dropped and
\* every character outside [a-z0-9 ] becomes a space
normalise(str) ==
  LET s == ToLowerCase(IF str = Undefined THEN <<>> ELSE str)
      a == [i \in 1..Len(s) |-> IF s[i] = NBSP THEN " " ELSE s[i]]
      b == IF Len(a) >= 4 /\ SubSeq(a, 1, 3) = <<"t", "h", "e">> /\ IsWs(a[4])
           THEN DropWs(SubSeq(a, 4, Len(a)))
           ELSE a
      kept == {"a", "b", "c", "d", "e", "f", "g", "h", "i", "j", "k", "l", "m",
               "n", "o", "p", "q", "r", "s", "t", "u", "v", "w", "x", "y", "z",
               " "} \cup {Digits[i] : i \in 1..10}
      c == [i \in 1..Len(b) |-> IF b[i] \in kept THEN b[i] ELSE " "]
  IN Trim(Collapse(c))

\* d[h] of a record built by rowToObj
Field(d, h) == IF h \in DOMAIN d THEN d[h] ELSE Undefined

\* the Faction value most frequent among the partial matches, the
\* first one met among equals
chosen(partial) ==
  LET count(i) == Len(SelectSeq(partial, LAMBDA d : Field(d, "Faction")
                                                    = Field(partial[i], "Faction")))
  IN Field(partial[CHOOSE i \in 1..Len(partial) :
                     /\ \A j \in 1..Len(partial) : count(j) <= count(i)
                     /\ \A j \in 1..(i - 1) : count(j) < count(i)],
           "Faction")

\* the exact matches, or else the partial matches of the chosen faction,
\* and the name the reply is titled with
pick(exact, partial) ==
  IF exact # <<>> THEN [rows |-> exact, chosen |-> Field(exact[1], "Faction")]
  ELSE IF partial = <<>> THEN [rows |-> <<>>, chosen |-> Null]
  ELSE [rows |-> SelectSeq(partial,
                           LAMBDA d : Field(d, "Faction") = chosen(partial)),
        chosen |-> chosen(partial)]

pickFactionRows(allRows, factionQuery) ==
  pick(SelectSeq(allRows, LAMBDA d : normalise(Field(d, "Faction"))
                                     = normalise(factionQuery)),
       SelectSeq(allRows, LAMBDA d : Includes(normalise(Field(d, "Faction")),
                                              normalise(factionQuery))))

usedSorted(factionRows) ==
  Keys(SortDesc([i \in 1..Len(factionRows) |->
                   [r |-> factionRows[i],
                    k |-> OrElse(asNumber(Field(factionRows[i], "Used %")),
                                 0 - 999)]]))

\* the diff that impactSorted orders by
diff(d) ==
  OrElse(asNumber(Field(d, "Win %")), 0)
    - OrElse(asNumber(Field(d, "Win % Without")), 0)

impactSorted(factionRows) ==
  Keys(SortDesc([i \in 1..Len(factionRows) |->
                   [r |-> factionRows[i], k |-> diff(factionRows[i])]]))

\* the records listed by /common, /leastcommon and /impact
Listed_A(cmd, factionRows) ==
  Slice(CASE cmd = "common" -> usedSorted(factionRows)
          [] cmd = "leastcommon" -> Reverse(usedSorted(factionRows))
          [] OTHER -> impactSorted(factionRows), 10)

\* the lines of the reply
Lines_A(cmd, list) ==
  [i \in 1..Len(list) |->
     [name |-> Field(list[i], "Warscroll"),
      metric |-> IF cmd = "impact"
                 THEN ppDiff(Field(list[i], "Win %"),
                             Field(list[i], "Win % Without"))
                 ELSE fmtPct_A(Field(list[i], "Used %"))]]

\* the lines of the same commands in revision B
Lines_B(cmd, res) ==
  [i \in 1..Len(res.used["w"]) |->
     [name |-> warscrollName(res.used["w"][i]),
      metric |-> IF cmd = "impact"
                 THEN fmtPP(Dec(warscrollLiftVsFaction(
                                  res.used["w"][i],
                                  factionWinPct(res.used["f"][1]))))
                 ELSE fmtPct(Dec(warscrollUsedPct(res.used["w"][i])))]]

Lines(v, cmd, ws, fac) ==
  IF v = "A" THEN Lines_A(cmd, Listed_A(cmd, pickFactionRows(ws, fac).rows))
  ELSE Lines_B(cmd, IF cmd = "impact" THEN QImpact(ws, F2, fac, FALSE)
                    ELSE QCommon(ws, fac, cmd = "leastcommon"))

\* a sheet with the win rate without the unit
Sheet ==
  <<WRow(<<"R", "a">>, Skaven, <<"9">>, <<"1", "0", "%">>, <<"5", "5", "%">>)
      @@ ("Win % Without" :> <<"5", "0", "%">>),
    WRow(<<"R", "o">>, Skaven, <<"6">>, <<"4", "0", "%">>, <<"4", "0", "%">>)
      @@ ("Win % Without" :> <<"5", "0", "%">>),
    WRow(<<"G", "a">>, Skaven, <<"1", "2">>, <<"4", "0", "%">>, <<"5", "8", "%">>)
      @@ ("Win % Without" :> <<>>),
    WRow(<<"G", "o">>, Ogor, <<"7">>, <<"3", "0", "%">>, <<"4", "8", "%">>)
      @@ ("Win % Without" :> <<"4", "5", "%">>)>>

\* the same load with the column ren[1] under its other name ren[2]
Renamed(sheet, ren) ==
  [i \in 1..Len(sheet) |->
     [h \in (DOMAIN sheet[i] \ {ren[1]}) \cup {ren[2]} |->
        IF h = ren[2] THEN sheet[i][ren[1]] ELSE sheet[i][h]]]

\* a list command is answered from the sheet and from the same sheet
\* with a column under another of its accepted names, or under a name
\* that is none of them
CallList ==
  /\ variant \in {"A", "B"}
  /\ \E cmd \in {"common", "leastcommon", "impact"} :
     \E fac \in {<<"s", "k">>, <<"o">>, <<"z">>} :
     \E ren \in { <<"Used %", "Used">>, <<"Win %", "Win Rate">>,
                  <<"Win % Without", "Win w/o">>, <<"Games", "games">>,
                  <<"Used %", "Unknown">>, <<"Win %", "Unknown">>,
                  <<"Win % Without", "Unknown">>, <<"Games", "Unknown">> } :
       calc' = [op |-> IF ren[2] = "Unknown" THEN "missing" ELSE "list",
                cmd |-> cmd, fac |-> fac, ren |-> ren,
                out |-> Lines(variant, cmd, Sheet, fac),
                alt |-> Lines(variant, cmd, Renamed(Sheet, ren), fac)]
  /\ UNCHANGED <<bot, parser>>

\* the impact of a record, with and without an impact column of its own,
\* as it is ordered by and as it is shown
CallImpact ==
  /\ variant \in {"A", "B"}
  /\ \E row \in {Sheet[i] : i \in 1..Len(Sheet)}
                \cup {Sheet[1] @@ ("Impact" :> <<"3">>),
                      Sheet[3] @@ ("Impact" :> <<>>)} :
       calc' = [op |-> "impact", row |-> row,
                out |-> IF variant = "A" THEN Num(diff(row))
                        ELSE warscrollImpactPP(row),
                shown |-> IF variant = "A"
                          THEN ppDiff(Field(row, "Win %"),
                                      Field(row, "Win % Without"))
                          ELSE fmtPP(Dec(warscrollImpactPP(row)))]
  /\ UNCHANGED <<bot, parser>>

(* --------------------------- normalisation ---------------------------- *)
\* revisions P0 and P2: String(s ?? "").trim().toLowerCase()
norm_P(s) == ToLowerCase(Trim(Str(s)))

\* revision P3: no String(), NBSP not replaced, and every character
\* outside [a-z0-9 ] is removed, not replaced by a space
normalise_P3(str) ==
  LET s == ToLowerCase(IF str = Undefined THEN <<>> ELSE str)
      b == IF Len(s) >= 4 /\ SubSeq(s, 1, 3) = <<"t", "h", "e">> /\ IsWs(s[4])
           THEN DropWs(SubSeq(s, 4, Len(s)))
           ELSE s
      kept == {"a", "b", "c", "d", "e", "f", "g", "h", "i", "j", "k", "l", "m",
               "n", "o", "p", "q", "r", "s", "t", "u", "v", "w", "x", "y", "z",
               " "} \cup {Digits[i] : i \in 1..10}
  IN Trim(Collapse(SelectSeq(b, LAMBDA c : c \in kept)))

\* the normaliser of each revision
Normaliser(v, s) ==
  CASE v = "A" -> normalise(s)
    [] v = "P3" -> normalise_P3(s)
    [] v \in {"P0", "P2"} -> norm_P(s)
    [] OTHER -> norm(s)

\* a text rewritten in one of the ways a name is spelled differently
Respelled(e, s) ==
  CASE e = "case" -> ToLowerCase(s)
    [] e = "lead" -> <<" ">> \o s
    [] e = "trail" -> s \o <<" ", NBSP>>
    [] e = "inner" -> Join(Split(s, " "), <<" ", " ">>)
    [] e = "punct" -> s \o <<"!">>
    [] OTHER -> <<"T", "h", "e", " ">> \o s

\* the normaliser is called on a text, on another spelling of it, and on
\* its own result
CallNormalise ==
  /\ \E s \in { <<"S", "k">>, <<"s", "k", " ", "r", "a">>,
                <<"T", "h", "e", " ", "S", "k">>,
                <<"t", "h", "e", " ", "t", "h", "e", " ", "s", "k">>,
                <<" ", "t", "h", "e", " ", "s", "k">>,
                <<"O", "g", "-", "o", "r">>, <<>> } :
     \E e \in {"case", "lead", "trail", "inner", "punct", "the"} :
     \E t \in {Respelled(e, s)} :
       calc' = [op |-> "normalise", in |-> s, edit |-> e, alt |-> t,
                out |-> Normaliser(variant, s),
                outAlt |-> Normaliser(variant, t),
                again |-> Normaliser(variant, Normaliser(variant, s))]
  /\ UNCHANGED <<bot, parser>>

(* --------------------- discovery and autocomplete --------------------- *)
\* [...new Set(arr.filter(Boolean))]: the first occurrence of every
\* non-empty value, in order
RECURSIVE uniq(_)
uniq(arr) ==
  IF arr = <<>> THEN <<>>
  ELSE LET init == uniq(SubSeq(arr, 1, Len(arr) - 1))
       IN IF arr[Len(arr)] = <<>> \/ arr[Len(arr)] \in Range(init) THEN init
          ELSE Append(init, arr[Len(arr)])

StartsWith(h, n) == Len(n) <= Len(h) /\ SubSeq(h, 1, Len(n)) = n

startsOrIncludes(haystack, needle) ==
  \/ norm(needle) = <<>>
  \/ StartsWith(norm(haystack), norm(needle))
  \/ Includes(norm(haystack), norm(needle))

\* revision P1 trims each name before uniq; its factionGames differs from
\* revision B's on an empty cell only (NaN against 0, both under MIN_GAMES)
getAllFactions(v, fs) ==
  LET pool == SelectSeq(fs, LAMBDA r : AtLeast(factionGames(r), MIN_GAMES))
  IN uniq([i \in 1..Len(pool) |->
             IF v = "P1" THEN Trim(factionName(pool[i]))
             ELSE factionName(pool[i])])

\* the names of the choices (names here are under the 100 characters
\* after which revision P1 shortens them)
makeChoices(list, typed) ==
  Slice(SelectSeq(list, LAMBDA x : startsOrIncludes(x, typed)), 25)

\* /factions search of revision P1: the bullets of the embed
factionsListing(all, search) ==
  Slice(IF search # <<>>
        THEN SelectSeq(all, LAMBDA x : startsOrIncludes(x, search)) ELSE all,
        50)

\* faction sheets: one with respelled and repeated names, one with more
\* names than the choices Discord takes
Roster(n) ==
  [i \in 1..n |-> FRow(String(i) \o <<"s", "k">>, Overall, <<"9">>,
                       <<"5", "0", "%">>, <<"x">>)]
  \o <<FRow(<<"S", "k">>, Overall, <<"9">>, <<"5", "0", "%">>, <<"x">>),
       FRow(<<"T", "h", "e", " ", "S", "k">>, Overall, <<"9">>,
            <<"5", "0", "%">>, <<"x">>),
       FRow(<<"S", "k">>, <<"C", "a">>, <<"7">>, <<"5", "0", "%">>, <<"x">>),
       FRow(<<"S", "k", " ">>, <<"C", "a">>, <<"7">>, <<"5", "0", "%">>, <<"x">>),
       FRow(<<>>, Overall, <<"9">>, <<"5", "0", "%">>, <<"x">>),
       FRow(Ogor, Overall, <<"4">>, <<"5", "0", "%">>, <<"x">>)>>

\* the autocomplete of a faction option, and the /factions listing
CallChoices ==
  /\ variant \in {"B", "P1"}
  /\ \E n \in {0, 1, 25}, kind \in {"autocomplete", "factions"} :
     \E typed \in {<<>>, <<"s", "k">>, <<"S", "K", " ">>, <<"t", "h", "e">>,
                   <<"z">>} :
     \E all \in {getAllFactions(variant, Roster(n))} :
       /\ kind = "factions" => variant = "P1"
       /\ calc' = [op |-> "choices", kind |-> kind, typed |-> typed, all |-> all,
                   out |-> IF kind = "factions" THEN factionsListing(all, typed)
                           ELSE makeChoices(all, typed)]
  /\ UNCHANGED <<bot, parser>>

\* a sheet that spells one faction in two ways and has a faction whose
\* name holds that of another
Spellings ==
  <<WRow(<<"R", "a">>, <<"S", "k">>, <<"9">>, <<"4", "0", "%">>, <<"5", "5", "%">>),
    WRow(<<"R", "o">>, <<"S", "K">>, <<"6">>, <<"6", "0", "%">>, <<"5", "0", "%">>),
    WRow(<<"G", "a">>, <<"S", "k">>, <<"1", "2">>, <<"3", "0", "%">>, <<"5", "8", "%">>),
    WRow(<<"X", "a">>, <<"S", "k", "a">>, <<"8">>, <<"2", "0", "%">>, <<"5", "1", "%">>),
    WRow(<<"G", "o">>, Ogor, <<"7">>, <<"3", "0", "%">>, <<"4", "8", "%">>)>>

\* the rows a list command works on for a faction option, and the name
\* its reply is titled with: pickFactionRows in revision A, the filters of
\* the /common branch and the option itself in revision B
CallPick ==
  /\ variant \in {"A", "B"}
  /\ \E q \in {<<"s", "k">>, <<"S", "K", "A">>, <<"s">>, <<"o">>, <<"z">>} :
       calc' = [op |-> "pick", q |-> q, rows |-> Spellings,
                out |-> IF variant = "A" THEN pickFactionRows(Spellings, q)
                        ELSE [rows |-> QCommon(Spellings, q, FALSE).used["w"],
                              chosen |-> q]]
  /\ UNCHANGED <<bot, parser>>

\* a faction sheet whose first Overall row is under the minimum of games,
\* whose next Overall row comes after another formation, and with a
\* faction that has no Overall row
Formations ==
  <<FRow(Skaven, Overall, <<"4">>, <<"3", "0", "%">>, <<"x">>),
    FRow(Skaven, <<"C", "a">>, <<"9">>, <<"4", "5", "%">>, <<"x">>),
    FRow(Skaven, <<" ", "O", "v", "e", "r", "a", "l", "l">>, <<"2", "0">>,
         <<"5", "2", "%">>, <<"x">>),
    FRow(Ogor, <<>>, <<"8">>, <<"4", "7", "%">>, <<"x">>),
    FRow(Ogor, <<"C", "a">>, <<"7">>, <<"4", "9", "%">>, <<"x">>)>>

\* /impact of revision B looks up the baseline row of its faction option
CallBaseline ==
  /\ variant = "B"
  /\ \E q \in {<<"s", "k">>, <<"O", "G", " ">>, <<>>, <<"z">>},
        cmd \in {"impact", "leastimpact"} :
       calc' = [op |-> "baseline", cmd |-> cmd, q |-> q, fs |-> Formations,
                out |-> findFactionOverallRowByInput(Formations, q),
                reply |-> QImpact(W2, Formations, q, cmd = "leastimpact")]
  /\ UNCHANGED <<bot, parser>>

CalcNext ==
  \/ CallToNum \/ CallGetter \/ CallList \/ CallImpact \/ CallFormat
  \/ Call_ppDiff \/ CallNormalise \/ CallChoices \/ CallPick \/ CallBaseline

CalcSpec == CalcInit /\ [][CalcNext]_vars

(* ======================== C14  column resolution ====================== *)
\* the positions of the aliases that are names of the record's header
Present(row, aliases) == {i \in 1..Len(aliases) : aliases[i] \in DOMAIN row}

\* C14: the resolver returns the value under the first alias, in list
\* order, that is in the record's header (exact match), whatever later
\* aliases are there too; when none is, every numeric getter built on the
\* field yields the not-a-number sentinel.  Refuted by revision B: getCol
\* returns "" for an absent column and toNum("") is 0.
C14_ColumnResolution ==
  calc.op = "getter" =>
    LET P == Present(calc.row, calc.aliases)
    IN IF P = {} THEN ~calc.out.fin
       ELSE \E i \in P : /\ \A j \in P : i <= j
                         /\ calc.raw = calc.row[calc.aliases[i]]

(* ======================== C16  numeric coercion ======================= *)
\* the number written in a text: digits, optionally signed, after one
\* trailing "%" and the grouping commas are removed
Written(x) ==
  LET t == Trim(Str(x))
      u == IF t # <<>> /\ t[Len(t)] = "%" THEN SubSeq(t, 1, Len(t) - 1) ELSE t
      d == SelectSeq(u, LAMBDA c : c # ",")
      neg == d # <<>> /\ Head(d) = "-"
      m == IF neg THEN Tail(d) ELSE d
  IN IF m # <<>> /\ \A i \in 1..Len(m) : IsDigit(m[i])
     THEN Num(IF neg THEN 0 - Value(m) ELSE Value(m))
     ELSE NaN

\* C16: the numeric parser returns the number written in the text after
\* removing a trailing "%" and grouping commas, and the not-a-number
\* sentinel for empty, blank, absent or non-numeric input.  Refuted by
\* toNum of revision B, where Number("") makes an empty cell 0.
C16_NumericCoercion ==
  calc.op = "toNum" => calc.out = Written(calc.in)

(* ======================== C15  alias equivalence ====================== *)
\* C15: two loads with the same values that differ only in which accepted
\* alias names a column give the same answer to every list command: the
\* same records in the same order with the same metrics.  Refuted by
\* revision A, which reads the columns under fixed header names.
C15_AliasEquivalence ==
  calc.op = "list" => calc.out = calc.alt

(* ======================== C17  within-unit impact ===================== *)
\* the impact of a record by its definition
Impact(row) ==
  LET w == Written(getCol(row, WinPctAliases))
      wo == Written(getCol(row, WinWithoutAliases))
  IN IF w.fin /\ wo.fin THEN Num(w.v - wo.v) ELSE NaN

\* C17: the impact shown and ranked by is win rate minus win rate
\* without the unit when both are available and is unavailable otherwise;
\* no number stands in for an unavailable impact.  Refuted by revision B,
\* where the absent impact column reads as 0 and is returned, and by
\* revision A, which orders by the win rate alone when the other is missing.
C17_WithinUnitImpact ==
  calc.op = "impact" =>
    /\ calc.out = Impact(calc.row)
    /\ ~Impact(calc.row).fin => calc.shown = <<Dash>>

(* ===================== C18  percentage-point text ===================== *)
\* C18: the percentage-point formatter renders a positive delta with a
\* leading "+" (+10pp for 60 against 50), a negative delta with a
\* leading "-" (-10pp for 40 against 50) and an unavailable delta as the
\* placeholder; no formatter renders an unavailable value as anything but
\* the placeholder.  Refuted by fmtPP: Math.round(-0.4) is -0, printed "0pp".
C18_PointRendering ==
  /\ calc.op = "fmtPP" =>
       /\ ~calc.in.fin => calc.out = <<Dash>>
       /\ calc.in.fin /\ calc.in.v > 0 => Head(calc.out) = "+"
       /\ calc.in.fin /\ calc.in.v < 0 => Head(calc.out) = "-"
       /\ calc.in = Dec(Num(10)) => calc.out = <<"+", "1", "0", "p", "p">>
       /\ calc.in = Dec(Num(0 - 10)) => calc.out = <<"-", "1", "0", "p", "p">>
  /\ calc.op \in {"fmtPct", "fmtInt"} =>
       (~calc.in.fin => calc.out = <<Dash>>)

(* ====================== C19  faction-baseline lift ==================== *)
\* the lift of the i-th record of the last answer over the faction row
\* the answer is based on
LastLift(i) ==
  warscrollLiftVsFaction(last.used["w"][i], factionWinPct(last.used["f"][1]))

\* C19: /impact returns only records with lift > 0, by lift descending,
\* and /leastimpact only records with lift < 0, by lift ascending; a record
\* with lift 0 or without lift is in neither.  Refuted by revision B, which
\* keeps every record with a finite lift in both lists.
C19_FactionLift ==
  (last.pc = "done" /\ last.reply = "data"
     /\ last.cmd \in {"impact", "leastimpact"}) =>
    LET n == Len(last.used["w"])
    IN /\ \A i \in 1..n :
            /\ LastLift(i).fin
            /\ IF last.cmd = "impact" THEN LastLift(i).v > 0
               ELSE LastLift(i).v < 0
       /\ \A i \in 1..(n - 1) :
            IF last.cmd = "impact" THEN LastLift(i).v >= LastLift(i + 1).v
            ELSE LastLift(i).v <= LastLift(i + 1).v

(* ========================= C20  usage ranking ========================= *)
\* C20: /common lists the records by used percent descending and
\* /leastcommon by used percent ascending, records with the same used
\* percent by games descending.  Refuted by revision B, which compares the
\* used percent only and leaves equal records in sheet order.
C20_UsageRanking ==
  (last.pc = "done" /\ last.reply = "data"
     /\ last.cmd \in {"common", "leastcommon"}) =>
    \A i \in 1..(Len(last.used["w"]) - 1) :
      LET a == last.used["w"][i]
          b == last.used["w"][i + 1]
          ua == warscrollUsedPct(a)
          ub == warscrollUsedPct(b)
      IN (ua.fin /\ ub.fin) =>
           /\ IF last.cmd = "common" THEN ua.v >= ub.v ELSE ua.v <= ub.v
           /\ ua.v = ub.v => warscrollGames(a).v >= warscrollGames(b).v

(* ==================== C21  normalisation equivalence ================== *)
\* C21: two texts that differ only in letter case, in leading, trailing
\* or repeated inner white space, in punctuation or in a leading "the "
\* normalise to the same string, and a distinct-values listing holds each
\* raw spelling at most once.  Refuted by norm of revision B, which keeps
\* punctuation and a leading "the", and by normalise of revision A, which
\* keeps a "the" that follows leading white space.
C21_NormalisationEquivalence ==
  /\ calc.op = "normalise" => calc.out = calc.outAlt
  /\ calc.op = "choices" =>
       \A i, j \in 1..Len(calc.all) : calc.all[i] = calc.all[j] => i = j

(* ==================== C30  normalisation idempotent =================== *)
\* C30: normalising a normalised text changes nothing, also for a text
\* that begins with white space before "the" or with "the" repeated.
\* Refuted by normalise of revisions A and P3: the leading "the " is
\* removed once, and only at the very start, before the text is trimmed.
C30_NormalisationIdempotent ==
  calc.op = "normalise" => calc.again = calc.out

(* ======================== C26  prefix preference ====================== *)
\* the candidate starts with the text typed; it holds it further in only
Prefixed(x) == StartsWith(norm(x), norm(calc.typed))
MidString(x) == ~Prefixed(x) /\ Includes(norm(x), norm(calc.typed))

\* C26: in autocomplete and discovery listings every candidate that
\* starts with the query is listed before every candidate that holds it
\* mid-string only, so the limit of 25 choices never drops a prefix match
\* while keeping a mid-string match.  Refuted by makeChoices, which
\* filters the candidates in sheet order and then cuts the list.
C26_PrefixPreference ==
  (calc.op = "choices" /\ norm(calc.typed) # <<>>) =>
    /\ \A i, j \in 1..Len(calc.out) :
         (Prefixed(calc.out[i]) /\ MidString(calc.out[j])) => i < j
    /\ \A k \in 1..Len(calc.all) :
         (Prefixed(calc.all[k]) /\ \E j \in 1..Len(calc.out) : MidString(calc.out[j]))
           => \E i \in 1..Len(calc.out) : calc.out[i] = calc.all[k]

(* ========================= C22  schema mismatch ======================= *)
\* the column a list command sorts by, and the column of the
\* minimum-games filter where the revision has one
KeyColumn(v, cmd, col) ==
  \/ col = (IF cmd = "impact" THEN "Win %" ELSE "Used %")
  \/ col = "Games" /\ v # "A"

\* C22: when the column that is the query's only sort or filter key is
\* not in the loaded header the query reports zero results, and when
\* another column is missing it still returns its rows.  Refuted by
\* revision B: the absent used-percent or win-rate column reads as 0, so
\* the rows are listed in sheet order with that substitute.
C22_SchemaMismatch ==
  calc.op = "missing" =>
    IF KeyColumn(variant, calc.cmd, calc.ren[1]) THEN calc.alt = <<>>
    ELSE calc.alt = calc.out

(* ======================= C23  dataset independence ==================== *)
\* C23: a load or refresh of one dataset, whether it succeeds or fails,
\* never changes another dataset's cached rows or timestamp (a step
\* changes the cache of the dataset whose fetch it completes, and no
\* other), and in a refresh of all datasets the failure of one dataset
\* neither keeps the refresh of the others from being attempted nor hides
\* their outcome from the report.  Refuted by the refresh branch of
\* revision P3, which awaits the two loads one after the other with no
\* catch between them, and by refreshAll of revisions P0 and P2.
C23_DatasetIndependence ==
  /\ [][\A d \in DS :
          cache'[d] # cache[d] =>
            /\ \E f \in inflight : f.d = d /\ f \notin inflight'
            /\ \A e \in DS \ {d} : cache'[e] = cache[e]]_vars
  /\ [](AuthorizedRefreshAnswered =>
          \A d \in Datasets(variant) :
            (url[d] /\ \E e \in DS \ {d} : last.fres[e] = "fail")
              => (last.nf[d] = 1 /\ Reported(last, d) = Outcome(last, d)))

(* ============================= C24  expiry ============================ *)
\* the datasets a command of a revision with a TTL loads, not forced
Reads(v, cmd) ==
  IF cmd = "refresh" THEN {}
  ELSE IF v = "A" THEN {"w"}
  ELSE (IF cmd \in WsCmds(v) THEN {"w"} ELSE {})
       \cup (IF cmd \in FCmds(v) THEN {"f"} ELSE {})

\* the record of the handler that the step starts in slot t
Started(t) == IF tasks'[t].pc = "wait" THEN tasks'[t] ELSE last'

Matching(exactly) ==
  SelectSeq(calc.rows,
            LAMBDA d : IF exactly
                       THEN Normaliser(variant, d["Faction"])
                            = Normaliser(variant, calc.q)
                       ELSE Includes(Normaliser(variant, d["Faction"]),
                                     Normaliser(variant, calc.q)))
Carrying(rows, name) == {d \in Range(rows) : d["Faction"] = name}

\* C25: if a row's normalised faction equals the normalised query only
\* those rows are returned; otherwise the rows returned are those that
\* carry the most frequent exact faction string among the rows whose
\* faction holds the query; in every case all rows returned carry one and
\* the same faction string, the chosen name.  Refuted by the /common
\* branch of revision B, which returns every row whose faction holds the
\* query, and by the exact branch of pickFactionRows in revision A.
C25_FactionMatching ==
  calc.op = "pick" =>
    /\ Matching(TRUE) # <<>> => Range(calc.out.rows) = Range(Matching(TRUE))
    /\ Matching(TRUE) = <<>> =>
         \/ Matching(FALSE) = <<>> /\ calc.out.rows = <<>>
         \/ \E d \in Range(Matching(FALSE)) :
              /\ Range(calc.out.rows) = Carrying(Matching(FALSE), d["Faction"])
              /\ \A e \in Range(Matching(FALSE)) :
                   Cardinality(Carrying(Matching(FALSE), e["Faction"]))
                     <= Cardinality(Carrying(Matching(FALSE), d["Faction"]))
    /\ \A i \in 1..Len(calc.out.rows) :
         calc.out.rows[i]["Faction"] = calc.out.chosen

(* ======================= C27  baseline selection ====================== *)
\* the positions of the faction rows with enough games whose faction
\* holds the query, and those among them whose formation is "overall"
Candidates ==
  {i \in 1..Len(calc.fs) :
     /\ AtLeast(factionGames(calc.fs[i]), MIN_GAMES)
     /\ Includes(norm(factionName(calc.fs[i])), norm(calc.q))}
OverallRows ==
  {i \in Candidates :
     norm(formationName(calc.fs[i])) = <<"o", "v", "e", "r", "a", "l", "l">>}
First(S) == CHOOSE i \in S : \A j \in S : i <= j

\* C27: the baseline of /impact and /leastimpact is the win rate of the
\* first faction row with games >= MIN_GAMES whose faction matches the
\* query and whose formation normalises to "overall", or of the first
\* matching row when there is none; when no faction row matches, the
\* reply is "not found" and nothing is ranked.
C27_BaselineSelection ==
  calc.op = "baseline" =>
    IF Candidates = {}
    THEN /\ calc.out = <<>>
         /\ calc.reply.kind = "notFound" /\ calc.reply.used["w"] = <<>>
    ELSE /\ calc.out = <<calc.fs[First(IF OverallRows # {} THEN OverallRows
                                       ELSE Candidates)]>>
         /\ calc.reply.kind = "data" /\ calc.reply.used["f"] = calc.out
         /\ \A i \in 1..Len(calc.reply.used["w"]) :
              warscrollLiftVsFaction(calc.reply.used["w"][i],
                                     factionWinPct(calc.out[1])).fin

\* the Overall row is the baseline although another formation of the
\* faction stands before it, and records are ranked against it
C27_Witness ==
  /\ calc.op = "baseline" /\ calc.q = <<"s", "k">>
  /\ calc.out = <<calc.fs[3]>> /\ Candidates = {2, 3}
  /\ calc.reply.kind = "data" /\ calc.reply.used["w"] # <<>>

(* ========================= C28  newest load wins ====================== *)
\* the step settles the fetch f: no fetch of that handler for that dataset
\* under that id is in flight after it
Completed(f) ==
  \A h \in inflight' : <<h.id, h.d, h.t>> # <<f.id, f.d, f.t>>

\* C28: when loads of one dataset overlap, a fetch that was started
\* earlier and completes later never overwrites the rows stored by a fetch
\* that was started after it, so after all of them the cache holds the
\* result of the load started last.  Refuted in every revision: the rows
\* are assigned when the fetch returns, whatever was stored meanwhile.
C28_NewestLoadWins ==
  [][\A d \in DS :
       cache'[d] # cache[d] =>
         \E f \in inflight : f.d = d /\ Completed(f) /\ ~f.newer]_vars

(* ======================= C29  monotonic timestamp ===================== *)
\* C29: the stored load timestamp of a dataset never decreases, whatever
\* the interleaving of loads and refreshes; a failed load leaves it as it
\* is.  Refuted by revisions A and P3, which store the Date.now() read
\* before the fetch: of two overlapping loads the one started first can
\* complete last and store its earlier time.
C29_MonotonicTimestamp ==
  [][\A d \in DS : cache'[d].at >= cache[d].at]_vars

====
